---- MODULE Spec2Model ----
(***************************************************************************)
(* A model of macro_econ's two core components:                            *)
(*   - ParquetCacheStore (src/macro_econ/cache/store.py): a directory of   *)
(*     <key>.parquet / <key>.meta.json file pairs with a read-time TTL;    *)
(*   - SeriesNode (src/macro_econ/series/node.py): a tree of nodes linked  *)
(*     by children lists, parent pointers and levels.                      *)
(* File names are sequences of characters, a directory is a function from  *)
(* the names of the files it holds to their contents, and time is counted  *)
(* in whole clock ticks.                                                   *)
(***************************************************************************)
EXTENDS Integers, Sequences, FiniteSets, TLC

(***************************************************************************)
(* Bounds of the model.                                                    *)
(***************************************************************************)
MaxTime == 2        \* the clock runs from 0 to MaxTime
MaxTTL == 1         \* a store is built with a ttl in 0..MaxTTL
MaxRows == 1        \* a stored series has at most MaxRows rows
MaxNodes == 3       \* at most MaxNodes SeriesNode objects are constructed
MaxEdges == 3       \* the children lists hold at most MaxEdges entries in all
MaxLevel == 5       \* no call is made that would push a level beyond MaxLevel

VARIABLES
    files,      \* the cache directory: file name -> content
    now,        \* time.time()
    ttl,        \* self.ttl
    result,     \* the last call made on the store and its outcome
    lastPut,    \* history: per key, the put that last wrote it, if any
    pc,         \* per process: where it stands inside a put, and the put's locals
    wlog,       \* history: per file on disk, who completed the last write of it
    made,       \* the SeriesNode objects constructed so far
    children,   \* node -> its children list
    parent,     \* node -> its parent, or None
    level,      \* node -> its level
    treeOp      \* the last call made on a node and how it ended

cacheVars == <<files, now, ttl, result, lastPut, pc, wlog>>
treeVars == <<made, children, parent, level, treeOp>>
vars == <<files, now, ttl, result, lastPut, pc, wlog, made, children, parent, level, treeOp>>

(***************************************************************************)
(* Keys, series and tags the callers pass.                                 *)
(***************************************************************************)
KeyA == <<"a">>
KeyAMeta == <<"a", ".", "m", "e", "t", "a">>
Keys == {KeyA, KeyAMeta}

\* the keys of the callers that list the store
KeyADashB == <<"a", "-", "b">>
AllKeys == Keys \cup {KeyADashB}

\* A series is a sequence of rows <<timestamp, value>>, ascending in timestamp.
Values == {100}
Series ==
    UNION { { [i \in 1..n |-> <<i, v[i]>>] : v \in [1..n -> Values] } : n \in 0..MaxRows }

\* **extra_meta: caller-supplied tags, a function from tag name to value.
NoTags == [n \in {} |-> 0]
TagSets ==
    { NoTags,
      [n \in {"source"} |-> "fred"],
      [n \in {"fetched_at"} |-> MaxTime + 1] }

\* DEFAULT_CACHE_TTL = 24 * 60 * 60
DEFAULT_CACHE_TTL == 86400

Procs == {1, 2}

(***************************************************************************)
(* File names.                                                             *)
(***************************************************************************)
ParquetExt == <<".", "p", "a", "r", "q", "u", "e", "t">>
MetaJsonExt == <<".", "m", "e", "t", "a", ".", "j", "s", "o", "n">>

data_path(key) == key \o ParquetExt
meta_path(key) == key \o MetaJsonExt

EndsWith(name, ext) ==
    /\ Len(name) >= Len(ext)
    /\ SubSeq(name, Len(name) - Len(ext) + 1, Len(name)) = ext

\* self.cache_dir.glob("*" + ext) over the directory dir
glob(dir, ext) == { name \in DOMAIN dir : EndsWith(name, ext) }

exists(dir, name) == name \in DOMAIN dir

\* the directory without the file
remove(dir, name) == [n \in (DOMAIN dir) \ {name} |-> dir[n]]

\* write as it would be with exclusive creation: a file that exists is left as it is
write_if_absent(dir, name, content) ==
    [n \in (DOMAIN dir) \cup {name} |-> IF n \in DOMAIN dir THEN dir[n] ELSE content]

\* open(name, "w"), write, close: the directory after the file was created or replaced
write(dir, name, content) ==
    [n \in (DOMAIN dir) \cup {name} |-> IF n = name THEN content ELSE dir[n]]

(***************************************************************************)
(* File contents.  A file that was opened for writing and not yet written  *)
(* completely holds Partial.                                               *)
(***************************************************************************)
Partial == [kind |-> "partial"]

\* to_parquet as it would be with index=False: the timestamps replaced by positions
to_parquet_no_index(df) ==
    [kind |-> "parquet",
     index |-> [i \in 1..Len(df) |-> i - 1],
     value |-> [i \in 1..Len(df) |-> df[i][2]]]

\* df.to_parquet: the frame stored column by column
to_parquet(df) ==
    [kind |-> "parquet",
     index |-> [i \in 1..Len(df) |-> df[i][1]],
     value |-> [i \in 1..Len(df) |-> df[i][2]]]

\* pd.read_parquet: the rows rebuilt from the columns
read_parquet(content) ==
    [i \in 1..Len(content.index) |-> <<content.index[i], content.value[i]>>]

\* the metadata dict put builds: {"fetched_at": time.time(), "key": key, **extra_meta}
build_meta(key, t, extra) ==
    [n \in {"fetched_at", "key"} \cup DOMAIN extra |->
        IF n \in DOMAIN extra THEN extra[n]
        ELSE IF n = "fetched_at" THEN t ELSE key]

\* json.dump: the dict written as its set of "name": value members
json_dump(meta) == [kind |-> "json", members |-> { <<n, meta[n]>> : n \in DOMAIN meta }]

\* json.load: the dict read back from the members
json_load(content) ==
    [n \in { m[1] : m \in content.members } |->
        (CHOOSE m \in content.members : m[1] = n)[2]]

\* meta.get("fetched_at", 0)
fetched_at(meta) == IF "fetched_at" \in DOMAIN meta THEN meta["fetched_at"] ELSE 0

(***************************************************************************)
(* What a call returns.  A call that changes the directory yields the      *)
(* directory it leaves and its outcome.                                    *)
(***************************************************************************)
Absent == [ret |-> "none"]
Hit(df) == [ret |-> "frame", frame |-> df]
Raises(what) == [ret |-> "raise", error |-> what]
Done == [ret |-> "done"]

\* Path.unlink(missing_ok=...)
unlink(dir, name, missing_ok) ==
    IF exists(dir, name) THEN [dir |-> remove(dir, name), out |-> Done]
    ELSE IF missing_ok THEN [dir |-> dir, out |-> Done]
    ELSE [dir |-> dir, out |-> Raises("FileNotFoundError")]

\* get as it would be with the sidecar read inside try/except: a sidecar that
\* cannot be parsed counts as a miss
get_lenient(dir, t, key) ==
    IF ~exists(dir, data_path(key)) \/ ~exists(dir, meta_path(key)) THEN Absent
    ELSE IF dir[meta_path(key)].kind # "json" THEN Absent
    ELSE IF t - fetched_at(json_load(dir[meta_path(key)])) > ttl THEN Absent
    ELSE IF dir[data_path(key)].kind # "parquet" THEN Absent
    ELSE Hit(read_parquet(dir[data_path(key)]))

\* ParquetCacheStore.get, on directory dir at clock time t
get(dir, t, key) ==
    IF ~exists(dir, data_path(key)) \/ ~exists(dir, meta_path(key)) THEN Absent
    ELSE IF dir[meta_path(key)].kind # "json" THEN Raises("JSONDecodeError")
    ELSE IF t - fetched_at(json_load(dir[meta_path(key)])) > ttl THEN Absent
    ELSE IF dir[data_path(key)].kind # "parquet" THEN Raises("ArrowInvalid")
    ELSE Hit(read_parquet(dir[data_path(key)]))

\* put as it would be if it updated the sidecar it finds instead of rewriting it:
\* the members of the old record that the new one does not name stay
put_update(dir, t, key, df, extra) ==
    LET fresh == build_meta(key, t, extra)
        old == IF exists(dir, meta_path(key)) /\ dir[meta_path(key)].kind = "json"
               THEN json_load(dir[meta_path(key)]) ELSE fresh
        merged == [n \in DOMAIN old \cup DOMAIN fresh |->
                      IF n \in DOMAIN fresh THEN fresh[n] ELSE old[n]]
    IN  write(write(dir, data_path(key), to_parquet(df)),
              meta_path(key), json_dump(merged))

\* get as it would be if it evicted what it finds stale: the directory without
\* the two files of a stale entry
after_get_evicting(dir, t, key) ==
    IF /\ exists(dir, data_path(key)) /\ exists(dir, meta_path(key))
       /\ dir[meta_path(key)].kind = "json"
       /\ t - fetched_at(json_load(dir[meta_path(key)])) > ttl
    THEN remove(remove(dir, data_path(key)), meta_path(key))
    ELSE dir

\* the directory ParquetCacheStore.get leaves: get only tests for and reads files
after_get(dir, t, key) == dir

\* ParquetCacheStore.put, run to completion on directory dir at clock time t
put(dir, t, key, df, extra) ==
    write(write(dir, data_path(key), to_parquet(df)),
          meta_path(key), json_dump(build_meta(key, t, extra)))

\* invalidate as it would be without missing_ok=True
invalidate_strict(dir, key) ==
    LET first == unlink(dir, data_path(key), FALSE)
    IN  IF first.out # Done THEN first
        ELSE unlink(first.dir, meta_path(key), FALSE)

StartsWith(name, prefix) ==
    /\ Len(name) >= Len(prefix)
    /\ SubSeq(name, 1, Len(prefix)) = prefix

\* invalidate as it would be if it removed the files found by glob(key + "*")
invalidate_by_prefix(dir, key) ==
    [dir |-> [n \in { m \in DOMAIN dir : ~StartsWith(m, key) } |-> dir[n]], out |-> Done]

\* ParquetCacheStore.invalidate
invalidate(dir, key) ==
    LET first == unlink(dir, data_path(key), TRUE)
    IN  IF first.out # Done THEN first
        ELSE unlink(first.dir, meta_path(key), TRUE)

\* for path in <paths>: path.unlink(), the paths taken in sorted order
RECURSIVE unlink_each(_, _)
unlink_each(dir, paths) ==
    IF paths = <<>> THEN [dir |-> dir, out |-> Done]
    ELSE LET first == unlink(dir, Head(paths), FALSE)
         IN  IF first.out # Done THEN first
             ELSE unlink_each(first.dir, Tail(paths))

\* the names of a set of files in sorted() order
RECURSIVE SortedNames(_)
CharCode(c) ==
    CASE c = "-" -> 45 [] c = "." -> 46 [] c = "_" -> 95 [] c = "a" -> 97 [] c = "b" -> 98
      [] c = "c" -> 99 [] c = "d" -> 100 [] c = "e" -> 101 [] c = "i" -> 105
      [] c = "j" -> 106 [] c = "m" -> 109 [] c = "n" -> 110
      [] c = "o" -> 111 [] c = "p" -> 112 [] c = "q" -> 113 [] c = "r" -> 114
      [] c = "s" -> 115 [] c = "t" -> 116 [] c = "u" -> 117
RECURSIVE NameLess(_, _)
NameLess(x, y) ==
    IF x = <<>> THEN y # <<>>
    ELSE IF y = <<>> THEN FALSE
    ELSE IF CharCode(Head(x)) # CharCode(Head(y)) THEN CharCode(Head(x)) < CharCode(Head(y))
    ELSE NameLess(Tail(x), Tail(y))
SortedNames(names) ==
    IF names = {} THEN <<>>
    ELSE LET first == CHOOSE x \in names : \A y \in names \ {x} : NameLess(x, y)
         IN  <<first>> \o SortedNames(names \ {first})

\* clear_all as it would be without its second loop: the sidecars stay
clear_all_data_only(dir) == unlink_each(dir, SortedNames(glob(dir, ParquetExt)))

\* ParquetCacheStore.clear_all, run to completion
clear_all(dir) ==
    LET first == unlink_each(dir, SortedNames(glob(dir, ParquetExt)))
    IN  IF first.out # Done THEN first
        ELSE unlink_each(first.dir, SortedNames(glob(first.dir, MetaJsonExt)))

\* str.replace(old, "") on a name: every occurrence of old removed, left to right
RECURSIVE Remove(_, _)
Remove(name, old) ==
    IF Len(name) < Len(old) THEN name
    ELSE IF SubSeq(name, 1, Len(old)) = old THEN Remove(SubSeq(name, Len(old) + 1, Len(name)), old)
    ELSE <<Head(name)>> \o Remove(Tail(name), old)

\* Path.stem: the name without its last suffix
RECURSIVE LastDot(_)
LastDot(name) ==
    IF name = <<>> THEN 0
    ELSE IF name[Len(name)] = "." THEN Len(name)
    ELSE LastDot(SubSeq(name, 1, Len(name) - 1))
stem(name) == IF LastDot(name) <= 1 THEN name ELSE SubSeq(name, 1, LastDot(name) - 1)

DotMeta == <<".", "m", "e", "t", "a">>

\* ParquetCacheStore.list_entries: (key, metadata) per metadata sidecar, or the
\* error of the first sidecar that cannot be parsed
list_entries(dir) ==
    LET paths == SortedNames(glob(dir, MetaJsonExt))
    IN  IF \E i \in 1..Len(paths) : dir[paths[i]].kind # "json"
        THEN Raises("JSONDecodeError")
        ELSE [ret |-> "entries",
              entries |-> [i \in 1..Len(paths) |->
                  <<Remove(stem(paths[i]), DotMeta), json_load(dir[paths[i]])>>]]

(***************************************************************************)
(* The store used by one caller: every call runs to completion.            *)
(***************************************************************************)
\* lastPut[k]: never written; removed by invalidate(k); removed by clear_all();
\* a put(k) started and has not finished; the put(k) that finished last.
\* For the keys outside Keys only the puts are told apart from no entry.
NoPut == [state |-> "none"]
Invalidated == [state |-> "invalidated"]
Cleared == [state |-> "cleared"]
TornPut == [state |-> "torn"]
DonePut(df, extra, t) == [state |-> "done", frame |-> df, tags |-> extra, at |-> t]

\* what a put found under its key: the number of rows and the tag names of
\* the entry it replaces, if there was one
Replaced(last) ==
    IF last.state = "done"
    THEN [state |-> "done", rows |-> Len(last.frame), names |-> DOMAIN last.tags]
    ELSE NoPut

NoCall == [op |-> "none"]
Idle == [at |-> "idle"]

Nodes == 1..MaxNodes
None == 0

InitCache ==
    /\ files = [n \in {} |-> Partial]
    /\ now = 0
    /\ ttl \in (0..MaxTTL) \cup {DEFAULT_CACHE_TTL}
    /\ result = NoCall
    /\ lastPut = [k \in AllKeys |-> NoPut]
    /\ pc = [p \in Procs |-> Idle]
    /\ wlog = [n \in {} |-> 0]

InitTree ==
    /\ made = {}
    /\ children = [n \in Nodes |-> <<>>]
    /\ parent = [n \in Nodes |-> None]
    /\ level = [n \in Nodes |-> 0]
    /\ treeOp = NoCall

Init == InitCache /\ InitTree

\* time passes
Tick ==
    /\ now < MaxTime
    /\ now' = now + 1
    /\ UNCHANGED <<files, ttl, result, lastPut, pc, wlog>>

Put(key, df, extra) ==
    /\ files' = put(files, now, key, df, extra)
    /\ result' = [op |-> "put", key |-> key, over |-> Replaced(lastPut[key])]
    /\ lastPut' = [lastPut EXCEPT ![key] = DonePut(df, extra, now)]
    /\ UNCHANGED <<now, ttl, pc, wlog>>

Get(key) ==
    /\ result' = [op |-> "get", key |-> key, out |-> get(files, now, key)]
    /\ files' = after_get(files, now, key)
    /\ UNCHANGED <<now, ttl, lastPut, pc, wlog>>

Invalidate(key) ==
    /\ files' = invalidate(files, key).dir
    /\ result' = [op |-> "invalidate", key |-> key,
                  had |-> {data_path(key), meta_path(key)} \cap DOMAIN files,
                  out |-> invalidate(files, key).out]
    /\ lastPut' = [lastPut EXCEPT ![key] = Invalidated]
    /\ wlog' = [n \in DOMAIN wlog \cap DOMAIN files' |-> wlog[n]]
    /\ UNCHANGED <<now, ttl, pc>>

ClearAll ==
    /\ files' = clear_all(files).dir
    /\ result' = [op |-> "clear_all", had |-> DOMAIN files, out |-> clear_all(files).out]
    /\ lastPut' = [k \in AllKeys |-> IF k \in Keys THEN Cleared ELSE NoPut]
    /\ wlog' = [n \in DOMAIN wlog \cap DOMAIN files' |-> wlog[n]]
    /\ UNCHANGED <<now, ttl, pc>>

ListEntries ==
    /\ result' = [op |-> "list_entries", out |-> list_entries(files)]
    /\ UNCHANGED <<files, now, ttl, lastPut, pc, wlog>>

Next ==
    \/ Tick /\ UNCHANGED treeVars
    \/ \E key \in Keys, df \in Series, extra \in TagSets :
           Put(key, df, extra) /\ UNCHANGED treeVars
    \/ \E key \in Keys : Get(key) /\ UNCHANGED treeVars
    \/ \E key \in Keys : Invalidate(key) /\ UNCHANGED treeVars
    \/ ClearAll /\ UNCHANGED treeVars
    \/ ListEntries /\ UNCHANGED treeVars

Spec == Init /\ [][Next]_vars

(***************************************************************************)
(* SpecList: one caller that stores entries under any of AllKeys, removes  *)
(* them and lists the store.                                               *)
(***************************************************************************)
ListTags == {NoTags, [n \in {"source"} |-> "fred"]}

NextList ==
    \/ Tick /\ UNCHANGED treeVars
    \/ \E key \in AllKeys, extra \in ListTags : Put(key, <<>>, extra) /\ UNCHANGED treeVars
    \/ \E key \in AllKeys : Invalidate(key) /\ UNCHANGED treeVars
    \/ ClearAll /\ UNCHANGED treeVars
    \/ ListEntries /\ UNCHANGED treeVars

SpecList == Init /\ [][NextList]_vars

(***************************************************************************)
(* put, statement by statement.  to_parquet opens (and so truncates) the   *)
(* data file and then writes it; the stamp is read from the clock; open(    *)
(* meta_path, "w") truncates the sidecar and json.dump then writes it.     *)
(* Two processes that have the same file open for writing at the same time *)
(* race: the file may end up as either one's content or as a mix of both.  *)
(***************************************************************************)
InPut(p) == pc[p].at \in {"data_open", "data_done", "stamped", "meta_open"}
Free(p) == pc[p].at \in {"idle", "crashed"}

\* the processes other than p that have file name open for writing
OtherWriters(p, name) ==
    { q \in Procs \ {p} :
        \/ pc[q].at = "data_open" /\ data_path(pc[q].key) = name
        \/ pc[q].at = "meta_open" /\ meta_path(pc[q].key) = name }

\* p, with the given locals, opens file name for writing: it and whoever has the
\* file open now race
OpenForWrite(p, locals, name, at) ==
    [q \in Procs |->
        IF q = p THEN [locals EXCEPT !.at = at, !.raced = OtherWriters(p, name) # {}]
        ELSE IF q \in OtherWriters(p, name) THEN [pc[q] EXCEPT !.raced = TRUE]
        ELSE pc[q]]

\* the history with the write of file name that has just completed
Logged(name, entry) ==
    [n \in (DOMAIN wlog) \cup {name} |-> IF n = name THEN entry ELSE wlog[n]]

\* what file name may hold once p has written content to it and closed it
WriteOutcomes(p, name, content) ==
    IF pc[p].raced
    THEN {content, Partial} \cup (IF exists(files, name) THEN {files[name]} ELSE {})
    ELSE {content}

\* line 60, df.to_parquet(data_path): the file is created or truncated
PutOpenData(p, key, df, extra) ==
    /\ Free(p)
    /\ files' = write(files, data_path(key), Partial)
    /\ pc' = OpenForWrite(p, [at |-> "idle", key |-> key, frame |-> df, tags |-> extra,
                               stamp |-> 0, raced |-> FALSE],
                          data_path(key), "data_open")
    /\ lastPut' = [lastPut EXCEPT ![key] = TornPut]
    /\ result' = [op |-> "put", key |-> key]
    /\ UNCHANGED <<now, ttl, wlog>>

\* line 60, df.to_parquet(data_path): the frame is written and the file closed
PutWriteData(p) ==
    /\ pc[p].at = "data_open"
    /\ \E content \in WriteOutcomes(p, data_path(pc[p].key), to_parquet(pc[p].frame)) :
          files' = write(files, data_path(pc[p].key), content)
    /\ wlog' = Logged(data_path(pc[p].key), [proc |-> p, raced |-> pc[p].raced])
    /\ pc' = [pc EXCEPT ![p].at = "data_done", ![p].raced = FALSE]
    /\ UNCHANGED <<now, ttl, result, lastPut>>

\* line 63, "fetched_at": time.time()
PutStamp(p) ==
    /\ pc[p].at = "data_done"
    /\ pc' = [pc EXCEPT ![p].at = "stamped", ![p].stamp = now]
    /\ UNCHANGED <<files, now, ttl, result, lastPut, wlog>>

\* line 67, open(meta_path, "w"): the sidecar is created or truncated
PutOpenMeta(p) ==
    /\ pc[p].at = "stamped"
    /\ files' = write(files, meta_path(pc[p].key), Partial)
    /\ pc' = OpenForWrite(p, pc[p], meta_path(pc[p].key), "meta_open")
    /\ UNCHANGED <<now, ttl, result, lastPut, wlog>>

\* line 68, json.dump(meta, f, ...): the sidecar is written and closed; put returns
PutWriteMeta(p) ==
    /\ pc[p].at = "meta_open"
    /\ \E content \in WriteOutcomes(p, meta_path(pc[p].key),
                          json_dump(build_meta(pc[p].key, pc[p].stamp, pc[p].tags))) :
          files' = write(files, meta_path(pc[p].key), content)
    /\ wlog' = Logged(meta_path(pc[p].key), [proc |-> p, raced |-> pc[p].raced])
    /\ pc' = [pc EXCEPT ![p].at = "done", ![p].raced = FALSE]
    /\ lastPut' = [lastPut EXCEPT ![pc[p].key] = DonePut(pc[p].frame, pc[p].tags, pc[p].stamp)]
    /\ UNCHANGED <<now, ttl, result>>

\* put has returned to its caller
PutReturn(p) ==
    /\ pc[p].at = "done"
    /\ pc' = [pc EXCEPT ![p] = Idle]
    /\ UNCHANGED <<files, now, ttl, result, lastPut, wlog>>

\* the process dies inside put: what it wrote so far stays on disk
Crash(p) ==
    /\ InPut(p)
    /\ pc' = [pc EXCEPT ![p] = [at |-> "crashed"]]
    /\ UNCHANGED <<files, now, ttl, result, lastPut, wlog>>

(***************************************************************************)
(* SpecCrash: one caller whose put may die at any statement; its other     *)
(* calls run to completion.                                                *)
(***************************************************************************)
Caller == 1

NextCrash ==
    \/ Tick /\ UNCHANGED treeVars
    \/ \E key \in Keys, df \in Series :
           PutOpenData(Caller, key, df, NoTags) /\ UNCHANGED treeVars
    \/ PutWriteData(Caller) /\ UNCHANGED treeVars
    \/ PutStamp(Caller) /\ UNCHANGED treeVars
    \/ PutOpenMeta(Caller) /\ UNCHANGED treeVars
    \/ PutWriteMeta(Caller) /\ UNCHANGED treeVars
    \/ PutReturn(Caller) /\ UNCHANGED treeVars
    \/ Crash(Caller) /\ UNCHANGED treeVars
    \/ \E key \in Keys : Free(Caller) /\ Get(key) /\ UNCHANGED treeVars
    \/ \E key \in Keys : Free(Caller) /\ Invalidate(key) /\ UNCHANGED treeVars

SpecCrash == Init /\ [][NextCrash]_vars

(***************************************************************************)
(* SpecConc: two processes, each running one put, with no locking.         *)
(***************************************************************************)
NextConc ==
    \/ Tick /\ UNCHANGED treeVars
    \/ \E p \in Procs, key \in Keys, df \in Series, extra \in TagSets :
           PutOpenData(p, key, df, extra) /\ UNCHANGED treeVars
    \/ \E p \in Procs : PutWriteData(p) /\ UNCHANGED treeVars
    \/ \E p \in Procs : PutStamp(p) /\ UNCHANGED treeVars
    \/ \E p \in Procs : PutOpenMeta(p) /\ UNCHANGED treeVars
    \/ \E p \in Procs : PutWriteMeta(p) /\ UNCHANGED treeVars

SpecConc == Init /\ [][NextConc]_vars

(***************************************************************************)
(* SpecRace: a reader runs get statement by statement while another        *)
(* process runs invalidate or clear_all unlink by unlink, with no locking. *)
(* Entries are put while both are idle.                                    *)
(***************************************************************************)
\* the process that reads and the other one, which deletes
Reader == Caller
Deleter == CHOOSE p \in Procs : p # Reader

\* line 44, data_path.exists() and meta_path.exists(): get returns None, or goes on
GetExists(p, key) ==
    /\ pc[p] = Idle
    /\ IF ~exists(files, data_path(key)) \/ ~exists(files, meta_path(key))
       THEN /\ result' = [op |-> "get", key |-> key, out |-> Absent, stored |-> Absent]
            /\ pc' = pc
       ELSE /\ result' = [op |-> "get_started", key |-> key]
            /\ pc' = [pc EXCEPT ![p] = [at |-> "get_checked", key |-> key,
                                        stored |-> get(files, now, key)]]
    /\ UNCHANGED <<files, now, ttl, lastPut, wlog>>

\* lines 47-48, open(meta_path) and json.load(f)
GetLoadMeta(p) ==
    /\ pc[p].at = "get_checked"
    /\ IF ~exists(files, meta_path(pc[p].key))
       THEN /\ result' = [op |-> "get", key |-> pc[p].key, stored |-> pc[p].stored,
                          out |-> Raises("FileNotFoundError")]
            /\ pc' = [pc EXCEPT ![p] = Idle]
       ELSE IF files[meta_path(pc[p].key)].kind # "json"
       THEN /\ result' = [op |-> "get", key |-> pc[p].key, stored |-> pc[p].stored,
                          out |-> Raises("JSONDecodeError")]
            /\ pc' = [pc EXCEPT ![p] = Idle]
       ELSE /\ result' = result
            /\ pc' = [pc EXCEPT ![p] = [at |-> "get_loaded", key |-> pc[p].key,
                                        stored |-> pc[p].stored,
                                        meta |-> json_load(files[meta_path(pc[p].key)])]]
    /\ UNCHANGED <<files, now, ttl, lastPut, wlog>>

\* lines 50-53, the ttl test and pd.read_parquet(data_path)
GetReadData(p) ==
    /\ pc[p].at = "get_loaded"
    /\ result' = [op |-> "get", key |-> pc[p].key, stored |-> pc[p].stored,
                  out |-> IF now - fetched_at(pc[p].meta) > ttl THEN Absent
                          ELSE IF ~exists(files, data_path(pc[p].key))
                          THEN Raises("FileNotFoundError")
                          ELSE IF files[data_path(pc[p].key)].kind # "parquet"
                          THEN Raises("ArrowInvalid")
                          ELSE Hit(read_parquet(files[data_path(pc[p].key)]))]
    /\ pc' = [pc EXCEPT ![p] = Idle]
    /\ UNCHANGED <<files, now, ttl, lastPut, wlog>>

\* line 72, self._data_path(key).unlink(missing_ok=True)
InvalidateData(q, key) ==
    /\ pc[q] = Idle
    /\ files' = unlink(files, data_path(key), TRUE).dir
    /\ pc' = [pc EXCEPT ![q] = [at |-> "inv_data", key |-> key]]
    /\ lastPut' = [lastPut EXCEPT ![key] = Invalidated]
    /\ UNCHANGED <<now, ttl, result, wlog>>

\* line 73, self._meta_path(key).unlink(missing_ok=True); invalidate returns
InvalidateMeta(q) ==
    /\ pc[q].at = "inv_data"
    /\ files' = unlink(files, meta_path(pc[q].key), TRUE).dir
    /\ pc' = [pc EXCEPT ![q] = Idle]
    /\ UNCHANGED <<now, ttl, result, lastPut, wlog>>

\* lines 77 and 79, self.cache_dir.glob(...): the paths the loop will unlink
ClearGlob(q) ==
    /\ \/ /\ pc[q] = Idle
          /\ pc' = [pc EXCEPT ![q] = [at |-> "clear_data",
                                      todo |-> SortedNames(glob(files, ParquetExt))]]
          /\ lastPut' = [k \in AllKeys |-> IF k \in Keys THEN Cleared ELSE NoPut]
       \/ /\ pc[q].at = "clear_data" /\ pc[q].todo = <<>>
          /\ pc' = [pc EXCEPT ![q] = [at |-> "clear_meta",
                                      todo |-> SortedNames(glob(files, MetaJsonExt))]]
          /\ lastPut' = lastPut
    /\ UNCHANGED <<files, now, ttl, result, wlog>>

\* lines 78 and 80, path.unlink()
ClearUnlink(q) ==
    /\ pc[q].at \in {"clear_data", "clear_meta"}
    /\ pc[q].todo # <<>>
    /\ files' = unlink(files, Head(pc[q].todo), FALSE).dir
    /\ pc' = [pc EXCEPT ![q].todo = Tail(pc[q].todo)]
    /\ UNCHANGED <<now, ttl, result, lastPut, wlog>>

\* clear_all returns
ClearReturn(q) ==
    /\ pc[q].at = "clear_meta" /\ pc[q].todo = <<>>
    /\ pc' = [pc EXCEPT ![q] = Idle]
    /\ UNCHANGED <<files, now, ttl, result, lastPut, wlog>>

NextRace ==
    \/ Tick /\ UNCHANGED treeVars
    \/ \E key \in Keys, df \in Series :
           (\A p \in Procs : pc[p] = Idle) /\ Put(key, df, NoTags) /\ UNCHANGED treeVars
    \/ \E key \in Keys : GetExists(Reader, key) /\ UNCHANGED treeVars
    \/ GetLoadMeta(Reader) /\ UNCHANGED treeVars
    \/ GetReadData(Reader) /\ UNCHANGED treeVars
    \/ \E key \in Keys : InvalidateData(Deleter, key) /\ UNCHANGED treeVars
    \/ InvalidateMeta(Deleter) /\ UNCHANGED treeVars
    \/ ClearGlob(Deleter) /\ UNCHANGED treeVars
    \/ ClearUnlink(Deleter) /\ UNCHANGED treeVars
    \/ ClearReturn(Deleter) /\ UNCHANGED treeVars

SpecRace == Init /\ [][NextRace]_vars

(***************************************************************************)
(* make_key.  A Python value is a record of its type and its text; a dict  *)
(* is the sequence of its <<name, value>> items in insertion order, names  *)
(* being sequences of characters; a JSON document is the sequence of its   *)
(* <<name, token>> members.                                                *)
(***************************************************************************)
Providers == {"fred", "bls"}
SeriesIds == {"GDP", "UNRATE"}

Str(text) == [type |-> "str", text |-> text]
Date(text) == [type |-> "date", text |-> text]
PyNone == [type |-> "NoneType", text |-> "None"]

\* the values callers pass for a parameter: the text "2020-01-01", the date
\* 2020-01-01 and None
ParamValues == {Str("2020-01-01"), Date("2020-01-01"), PyNone}

SourceName == <<"s", "o", "u", "r", "c", "e">>
SeriesIdName == <<"s", "e", "r", "i", "e", "s", "_", "i", "d">>
StartName == <<"s", "t", "a", "r", "t">>
EndName == <<"e", "n", "d">>
ParamNames == {StartName, EndName}

\* **params: the keyword arguments in the order the caller wrote them, no
\* name twice
Kwargs ==
    { kw \in UNION { [1..n -> ParamNames \X ParamValues] : n \in 0..Cardinality(ParamNames) } :
        \A i, j \in 1..Len(kw) : i # j => kw[i][1] # kw[j][1] }

\* str(value)
str(value) == Str(value.text)

\* the JSON token json.dumps(..., default=str) writes for a value: a string
\* literal, null, or for a value json cannot serialise the token of default(value)
json_token(value) ==
    IF value.type = "str" THEN [json |-> "string", text |-> value.text]
    ELSE IF value.type = "NoneType" THEN [json |-> "null"]
    ELSE IF value.type = "int" THEN [json |-> "number", number |-> value.number]
    ELSE [json |-> "string", text |-> str(value).text]

\* json.dumps as it would be without sort_keys=True: the members in insertion order
json_dumps_unsorted(dict) ==
    [i \in 1..Len(dict) |-> <<dict[i][1], json_token(dict[i][2])>>]

\* json.dumps(dict, sort_keys=True, default=str): the members in the order of
\* their names
json_dumps(dict) ==
    LET names == SortedNames({ dict[i][1] : i \in 1..Len(dict) })
    IN  [i \in 1..Len(names) |->
            <<names[i],
              json_token(dict[CHOOSE j \in 1..Len(dict) : dict[j][1] = names[i]][2])>>]

\* hashlib.sha256(text.encode()).hexdigest()[:16]: a function of the text, taken
\* to give different texts different digests
sha256_hex16(text) == [sha256 |-> text]

\* make_key(source, series_id, **params)
make_key(source, series_id, params) ==
    sha256_hex16(json_dumps(<<<<SourceName, Str(source)>>, <<SeriesIdName, Str(series_id)>>>>
                            \o params))

MakeKey(source, series_id, params) ==
    /\ result' = [op |-> "make_key", source |-> source, series_id |-> series_id,
                  params |-> params, out |-> make_key(source, series_id, params)]
    /\ UNCHANGED <<files, now, ttl, lastPut, pc, wlog>>

NextKey ==
    \E source \in Providers, series_id \in SeriesIds, params \in Kwargs :
        MakeKey(source, series_id, params) /\ UNCHANGED treeVars

SpecKey == Init /\ [][NextKey]_vars

(***************************************************************************)
(* fetch_series of FredClient and BlsClient.  A request is the series id   *)
(* and the two dates the caller passes; the provider answers a request     *)
(* with a series or fails.  The 16 hex digits of a key are one symbol of a *)
(* file name.                                                              *)
(***************************************************************************)
Clients == {"fred", "bls"}

\* the requests the callers make: a series from a start date on, and a series
\* with both dates left out
Requests ==
    { [series_id |-> "GDP", start_date |-> Str("2020-01-01"), end_date |-> PyNone],
      [series_id |-> "UNRATE", start_date |-> PyNone, end_date |-> PyNone] }

\* the requests made of each client
RequestsOf(client) ==
    { req \in Requests : (client = "bls") = (req.start_date = PyNone) }

PyInt(n) == [type |-> "int", number |-> n]

\* datetime.now().year at clock time t: the year turns at the last tick of the clock
year(t) == IF t < MaxTime THEN 2026 ELSE 2027

\* int(date[:4]) of the date texts callers pass
int_prefix(date) == IF date.text = "2020-01-01" THEN 2020 ELSE 0

\* BLS_MAX_YEARS_PER_REQUEST = 20
BLS_MAX_YEARS_PER_REQUEST == 20

\* bls.py lines 129-131: the years of the request
start_year(req, t) ==
    IF req.start_date # PyNone THEN int_prefix(req.start_date)
    ELSE year(t) - BLS_MAX_YEARS_PER_REQUEST
end_year(req, t) ==
    IF req.end_date # PyNone THEN int_prefix(req.end_date) ELSE year(t)

\* fred.py line 45, make_key("fred", series_id, start=start_date, end=end_date),
\* and bls.py line 133, make_key("bls", series_id, start=start_year, end=end_year)
cache_key(client, req, t) ==
    IF client = "fred"
    THEN <<make_key("fred", req.series_id,
                    <<<<StartName, req.start_date>>, <<EndName, req.end_date>>>>)>>
    ELSE <<make_key("bls", req.series_id,
                    <<<<StartName, PyInt(start_year(req, t))>>,
                      <<EndName, PyInt(end_year(req, t))>>>>)>>

\* the tags of self.cache.put(cache_key, df, source=..., series_id=series_id)
fetch_tags(client, req) ==
    [n \in {"source", "series_id"} |-> IF n = "source" THEN client ELSE req.series_id]

\* self._fred.get_series(...) and self._post(...): the series of the answer,
\* or an error
ProviderFails == [ret |-> "raise", error |-> "provider"]
Replies == { Hit(df) : df \in Series } \cup {ProviderFails}

\* fetch_series of client on directory dir at clock time t, the provider
\* answering with reply if it is asked: the directory left, the number of
\* provider requests made and the outcome
fetch_series(client, dir, t, req, reply) ==
    LET cached == get(dir, t, cache_key(client, req, t))
    IN  IF cached.ret = "raise" THEN [dir |-> dir, calls |-> 0, out |-> cached]
        ELSE IF cached # Absent THEN [dir |-> dir, calls |-> 0, out |-> cached]
        ELSE IF reply.ret = "frame"
        THEN [dir |-> put(dir, t, cache_key(client, req, t), reply.frame,
                          fetch_tags(client, req)),
              calls |-> 1, out |-> reply]
        ELSE [dir |-> dir, calls |-> 1, out |-> reply]

FetchSeries(client, req, reply) ==
    /\ files' = fetch_series(client, files, now, req, reply).dir
    /\ result' = [op |-> "fetch", client |-> client, req |-> req, at |-> now,
                  calls |-> fetch_series(client, files, now, req, reply).calls,
                  out |-> fetch_series(client, files, now, req, reply).out]
    /\ UNCHANGED <<now, ttl, lastPut, pc, wlog>>

\* what a put of df under key leaves on disk when the process dies inside it:
\* after to_parquet opened the data file, after it wrote it, or after
\* open(meta_path, "w")
torn_puts(dir, key, df) ==
    { write(dir, data_path(key), Partial),
      write(dir, data_path(key), to_parquet(df)),
      write(write(dir, data_path(key), to_parquet(df)), meta_path(key), Partial) }

\* a fetch_series that misses, gets the provider's answer and whose process
\* dies inside self.cache.put
FetchDies(client, req, df) ==
    /\ get(files, now, cache_key(client, req, now)) = Absent
    /\ files' \in torn_puts(files, cache_key(client, req, now), df)
    /\ result' = [op |-> "killed", client |-> client, req |-> req, at |-> now]
    /\ UNCHANGED <<now, ttl, lastPut, pc, wlog>>

NextFetch ==
    \/ Tick /\ UNCHANGED treeVars
    \/ \E client \in Clients, reply \in Replies :
          \E req \in RequestsOf(client) : FetchSeries(client, req, reply) /\ UNCHANGED treeVars
    \/ \E client \in Clients, df \in Series :
          \E req \in RequestsOf(client) : FetchDies(client, req, df) /\ UNCHANGED treeVars

SpecFetch == Init /\ [][NextFetch]_vars

(***************************************************************************)
(* SeriesNode.  A node is an object identity in Nodes; children, parent    *)
(* and level are the fields of the objects.  Objects are numbered in the   *)
(* order of their construction.                                            *)
(***************************************************************************)
\* the interpreter gives up a recursion deeper than this with RecursionError;
\* no acyclic structure of the model is that deep
RecursionLimit == MaxNodes + 1

Edges(ch) == { <<p, i>> \in Nodes \X (1..MaxEdges) : i <= Len(ch[p]) }

\* the nodes in the children list of n
KidsOf(ch, n) == { ch[n][i] : i \in 1..Len(ch[n]) }

\* the nodes reached from the nodes of from by one or more steps down the
\* children lists
RECURSIVE Below(_, _, _)
Below(ch, from, steps) ==
    IF steps = 0 THEN {}
    ELSE LET kids == UNION { KidsOf(ch, n) : n \in from }
         IN  kids \cup Below(ch, kids, steps - 1)
Descendants(ch, n) == Below(ch, {n}, MaxNodes)

RECURSIVE post_init(_, _, _, _)
RECURSIVE post_init_loop(_, _, _, _, _)
RECURSIVE post_init_loop_counting(_, _, _, _, _)
\* the relinking loop as it would be if it counted a child's level up instead
\* of setting it from the parent's
post_init_loop_counting(ch, st, n, rest, depth) ==
    IF rest = <<>> \/ st.err THEN st
    ELSE LET child == Head(rest)
             linked == [parent |-> [st.parent EXCEPT ![child] = n],
                        level |-> [st.level EXCEPT ![child] = st.level[child] + 1],
                        err |-> FALSE]
         IN  post_init_loop_counting(ch, post_init(ch, linked, child, depth + 1), n,
                                     Tail(rest), depth)

\* __post_init__ on node n, at recursion depth depth, over the children lists ch
\* and the fields st = [parent, level, err]: for child in self.children:
\* child.parent = self; child.level = self.level + 1; child.__post_init__()
post_init(ch, st, n, depth) ==
    IF depth > RecursionLimit THEN [st EXCEPT !.err = TRUE]
    ELSE post_init_loop(ch, st, n, ch[n], depth)
post_init_loop(ch, st, n, rest, depth) ==
    IF rest = <<>> \/ st.err THEN st
    ELSE LET child == Head(rest)
             linked == [parent |-> [st.parent EXCEPT ![child] = n],
                        level |-> [st.level EXCEPT ![child] = st.level[n] + 1],
                        err |-> FALSE]
         IN  post_init_loop(ch, post_init(ch, linked, child, depth + 1), n, Tail(rest), depth)

Fields == [parent |-> parent, level |-> level, err |-> FALSE]

WithinLevels(st) == \A n \in Nodes : st.level[n] <= MaxLevel

\* SeriesNode(name, code, children=kids): the dataclass __init__ (level 0, no
\* parent) followed by __post_init__
Construct(kids) ==
    LET n == Cardinality(made) + 1
        ch == [children EXCEPT ![n] = kids]
        st == post_init(ch, [Fields EXCEPT !.parent[n] = None, !.level[n] = 0], n, 0)
    IN  /\ n \in Nodes
        /\ Cardinality(Edges(children)) + Len(kids) <= MaxEdges
        /\ WithinLevels(st)
        /\ made' = made \cup {n}
        /\ children' = ch
        /\ parent' = st.parent
        /\ level' = st.level
        /\ treeOp' = [op |-> "construct", self |-> n,
                      out |-> IF st.err THEN Raises("RecursionError") ELSE Done]

\* self.add_child(child)
add_child(self, child) ==
    LET linked == [Fields EXCEPT !.parent[child] = self, !.level[child] = level[self] + 1]
        st == post_init(children, linked, child, 0)
    IN  [children |-> IF st.err THEN children
                      ELSE [children EXCEPT ![self] = Append(@, child)],
         parent |-> st.parent,
         level |-> st.level,
         out |-> IF st.err THEN Raises("RecursionError") ELSE Done]

AddChild(self, child) ==
    /\ self \in made /\ child \in made
    /\ Cardinality(Edges(children)) < MaxEdges
    /\ WithinLevels(add_child(self, child))
    /\ children' = add_child(self, child).children
    /\ parent' = add_child(self, child).parent
    /\ level' = add_child(self, child).level
    /\ treeOp' = [op |-> "add_child", self |-> self, child |-> child,
                  out |-> add_child(self, child).out]
    /\ UNCHANGED made

\* what a traversal returns: the nodes in the order they were produced
NodeList(nodes) == [ret |-> "nodes", nodes |-> nodes]

\* walk() on node n at recursion depth depth, run to its end (list(n.walk())):
\* yield self; for child in self.children: yield from child.walk().
\* The value is [nodes, err]; err says the recursion went beyond the limit.
RECURSIVE walk(_, _, _)
RECURSIVE walk_loop(_, _, _, _)
walk(ch, n, depth) ==
    IF depth > RecursionLimit THEN [nodes |-> <<>>, err |-> TRUE]
    ELSE walk_loop(ch, [nodes |-> <<n>>, err |-> FALSE], ch[n], depth)
walk_loop(ch, acc, rest, depth) ==
    IF rest = <<>> \/ acc.err THEN acc
    ELSE LET sub == walk(ch, Head(rest), depth + 1)
         IN  walk_loop(ch, [nodes |-> acc.nodes \o sub.nodes, err |-> sub.err],
                       Tail(rest), depth)

\* self.is_leaf
is_leaf(ch, n) == Len(ch[n]) = 0

\* leaves as it would be without the is_leaf branch: a node without children
\* contributes nothing
RECURSIVE leaves_no_base(_, _, _)
RECURSIVE leaves_no_base_loop(_, _, _, _)
leaves_no_base(ch, n, depth) ==
    IF depth > RecursionLimit THEN [nodes |-> <<>>, err |-> TRUE]
    ELSE leaves_no_base_loop(ch, [nodes |-> <<>>, err |-> FALSE], ch[n], depth)
leaves_no_base_loop(ch, acc, rest, depth) ==
    IF rest = <<>> \/ acc.err THEN acc
    ELSE LET sub == leaves_no_base(ch, Head(rest), depth + 1)
         IN  leaves_no_base_loop(ch, [nodes |-> acc.nodes \o sub.nodes, err |-> sub.err],
                                 Tail(rest), depth)

\* leaves() on node n at recursion depth depth: [self] for a leaf, else the
\* leaves of the children, child by child
RECURSIVE leaves(_, _, _)
RECURSIVE leaves_loop(_, _, _, _)
leaves(ch, n, depth) ==
    IF depth > RecursionLimit THEN [nodes |-> <<>>, err |-> TRUE]
    ELSE IF is_leaf(ch, n) THEN [nodes |-> <<n>>, err |-> FALSE]
    ELSE leaves_loop(ch, [nodes |-> <<>>, err |-> FALSE], ch[n], depth)
leaves_loop(ch, acc, rest, depth) ==
    IF rest = <<>> \/ acc.err THEN acc
    ELSE LET sub == leaves(ch, Head(rest), depth + 1)
         IN  leaves_loop(ch, [nodes |-> acc.nodes \o sub.nodes, err |-> sub.err],
                         Tail(rest), depth)

\* what the caller of a traversal gets
Returned(run) == IF run.err THEN Raises("RecursionError") ELSE NodeList(run.nodes)

\* list(self.walk())
Walk(self) ==
    /\ self \in made
    /\ treeOp' = [op |-> "walk", self |-> self, out |-> Returned(walk(children, self, 0))]
    /\ UNCHANGED <<made, children, parent, level>>

\* self.leaves()
Leaves(self) ==
    /\ self \in made
    /\ treeOp' = [op |-> "leaves", self |-> self, out |-> Returned(leaves(children, self, 0))]
    /\ UNCHANGED <<made, children, parent, level>>

\* the sequences of already constructed nodes a constructor may be given
KidLists == UNION { [1..n -> made] : n \in 0..MaxEdges }

NextTree ==
    \/ \E kids \in KidLists : Construct(kids) /\ UNCHANGED cacheVars
    \/ \E self \in Nodes, child \in Nodes : AddChild(self, child) /\ UNCHANGED cacheVars

SpecTree == Init /\ [][NextTree]_vars

\* the code given to the n-th node constructed: the first and the third share
\* one, and no node has the code "Z"
code(n) == IF n % 2 = 1 THEN "A" ELSE "B"
Codes == {"A", "B", "Z"}

Found(n) == [ret |-> "node", node |-> n]

\* find(c) on node n at recursion depth depth: self if its code matches, else
\* the first child.find(c) that is not None, else None
RECURSIVE find(_, _, _, _)
RECURSIVE find_loop(_, _, _, _)
find(ch, n, c, depth) ==
    IF depth > RecursionLimit THEN Raises("RecursionError")
    ELSE IF code(n) = c THEN Found(n)
    ELSE find_loop(ch, ch[n], c, depth)
find_loop(ch, rest, c, depth) ==
    IF rest = <<>> THEN Absent
    ELSE LET found == find(ch, Head(rest), c, depth + 1)
         IN  IF found # Absent THEN found
             ELSE find_loop(ch, Tail(rest), c, depth)

\* self.find(c)
Find(self, c) ==
    /\ self \in made
    /\ treeOp' = [op |-> "find", self |-> self, code |-> c, out |-> find(children, self, c, 0)]
    /\ UNCHANGED <<made, children, parent, level>>

\* list(reversed(codes))
RECURSIVE reversed(_)
reversed(seq) == IF seq = <<>> THEN <<>> ELSE Append(reversed(Tail(seq)), Head(seq))

\* a call that never returns
Never == [ret |-> "never"]

\* path(): while node is not None: codes.append(node.code); node = node.parent.
\* A chain of parents that has not ended after every node was passed once is
\* a cycle, and the loop runs for ever.
RECURSIVE path_loop(_, _, _)
path_loop(par, node, codes) ==
    IF node = None THEN [ret |-> "codes", codes |-> reversed(codes)]
    ELSE IF Len(codes) >= MaxNodes THEN Never
    ELSE path_loop(par, par[node], Append(codes, code(node)))
path(par, n) == path_loop(par, n, <<>>)

\* self.path()
Path(self) ==
    /\ self \in made
    /\ treeOp' = [op |-> "path", self |-> self, out |-> path(parent, self)]
    /\ UNCHANGED <<made, children, parent, level>>

\* to_dict() on node n at recursion depth depth: the node's own members (of
\* them code and level) and, if self.children is not empty, the member
\* children with the list of the children's dicts
RECURSIVE to_dict(_, _, _, _)
to_dict(ch, lev, n, depth) ==
    IF depth > RecursionLimit THEN Raises("RecursionError")
    ELSE LET subs == [i \in 1..Len(ch[n]) |-> to_dict(ch, lev, ch[n][i], depth + 1)]
         IN  IF \E i \in 1..Len(subs) : subs[i].ret = "raise"
             THEN Raises("RecursionError")
             ELSE IF ch[n] = <<>>
             THEN [ret |-> "dict", dict |-> [code |-> code(n), level |-> lev[n]]]
             ELSE [ret |-> "dict",
                   dict |-> [code |-> code(n), level |-> lev[n],
                             children |-> [i \in 1..Len(subs) |-> subs[i].dict]]]

\* self.to_dict()
ToDict(self) ==
    /\ self \in made
    /\ treeOp' = [op |-> "to_dict", self |-> self, out |-> to_dict(children, level, self, 0)]
    /\ UNCHANGED <<made, children, parent, level>>

\* every child c of node n or of a descendant p of n has c.parent = p and
\* c.level = p.level + 1
Consistent(n) ==
    \A p \in {n} \cup Descendants(children, n) :
        \A c \in KidsOf(children, p) : parent[c] = p /\ level[c] = level[p] + 1

\* self.__post_init__(), called again on a node that exists
PostInit(self) ==
    LET st == post_init(children, Fields, self, 0)
    IN  /\ self \in made
        /\ WithinLevels(st)
        /\ parent' = st.parent
        /\ level' = st.level
        /\ treeOp' = [op |-> "post_init", self |-> self, consistent |-> Consistent(self),
                      out |-> IF st.err THEN Raises("RecursionError") ELSE Done]
        /\ UNCHANGED <<made, children>>

(***************************************************************************)
(* SeriesNode.get_source over the node's list of SeriesSource objects.     *)
(***************************************************************************)
MaxSources == 2     \* a node has at most MaxSources sources

SourceNames == {"fred", "bea", "bls"}

\* SeriesSource(source, series_id)
Sources == [source : {"fred", "bea"}, series_id : {"X", "Y"}]
SourceLists == UNION { [1..n -> Sources] : n \in 0..MaxSources }

\* get_source as it would be if the loop did not return at the first match:
\* the last matching source wins
RECURSIVE get_source_last(_, _)
get_source_last(srcs, source_name) ==
    IF srcs = <<>> THEN Absent
    ELSE IF srcs[Len(srcs)].source = source_name
    THEN [ret |-> "source", src |-> srcs[Len(srcs)]]
    ELSE get_source_last(SubSeq(srcs, 1, Len(srcs) - 1), source_name)

\* get_source(source_name) over self.sources = srcs: for src in self.sources:
\* if src.source == source_name: return src; then return None
RECURSIVE get_source(_, _)
get_source(srcs, source_name) ==
    IF srcs = <<>> THEN Absent
    ELSE IF Head(srcs).source = source_name THEN [ret |-> "source", src |-> Head(srcs)]
    ELSE get_source(Tail(srcs), source_name)

\* a node with the sources srcs is asked for the source of one provider
GetSource(srcs, source_name) ==
    /\ treeOp' = [op |-> "get_source", sources |-> srcs, name |-> source_name,
                  out |-> get_source(srcs, source_name)]
    /\ UNCHANGED <<made, children, parent, level>>

NextSource ==
    \E srcs \in SourceLists, source_name \in SourceNames :
        GetSource(srcs, source_name) /\ UNCHANGED cacheVars

SpecSource == Init /\ [][NextSource]_vars

(***************************************************************************)
(* Specifications of traversals and queries: nodes are constructed and     *)
(* linked as in SpecTree, over fewer children entries, and are traversed   *)
(* (SpecWalk), queried (SpecQuery) or relinked (SpecRelink) in between.    *)
(***************************************************************************)
QueryEdges == MaxNodes - 1

BuildNode ==
    \E kids \in KidLists :
        /\ Construct(kids)
        /\ Cardinality(Edges(children')) <= QueryEdges
        /\ UNCHANGED cacheVars

LinkNodes ==
    \E self \in Nodes, child \in Nodes :
        /\ AddChild(self, child)
        /\ Cardinality(Edges(children')) <= QueryEdges
        /\ UNCHANGED cacheVars

NextWalk ==
    \/ BuildNode
    \/ LinkNodes
    \/ \E self \in Nodes : Walk(self) /\ UNCHANGED cacheVars
    \/ \E self \in Nodes : Leaves(self) /\ UNCHANGED cacheVars

SpecWalk == Init /\ [][NextWalk]_vars

NextQuery ==
    \/ BuildNode
    \/ LinkNodes
    \/ \E self \in Nodes : Walk(self) /\ UNCHANGED cacheVars
    \/ \E self \in Nodes : Leaves(self) /\ UNCHANGED cacheVars
    \/ \E self \in Nodes, c \in Codes : Find(self, c) /\ UNCHANGED cacheVars
    \/ \E self \in Nodes : Path(self) /\ UNCHANGED cacheVars
    \/ \E self \in Nodes : ToDict(self) /\ UNCHANGED cacheVars

SpecQuery == Init /\ [][NextQuery]_vars

NextRelink ==
    \/ BuildNode
    \/ LinkNodes
    \/ \E self \in Nodes : PostInit(self) /\ UNCHANGED cacheVars

SpecRelink == Init /\ [][NextRelink]_vars

(***************************************************************************)
(* Properties of the store used by one caller (Spec).                      *)
(***************************************************************************)
BothFiles(k) == exists(files, data_path(k)) /\ exists(files, meta_path(k))

\* the fetched_at of k's metadata file
StoredAt(k) == fetched_at(json_load(files[meta_path(k)]))

NoEntries == [ret |-> "entries", entries |-> <<>>]

\* C1: while the entry that put(k, S, ...) wrote is in place (no later put,
\* invalidate or clear_all of k) and now - fetched_at <= ttl, get(k) returns a
\* series with the rows of S: the same index values and the same values.
C1_RoundTrip ==
    \A k \in Keys :
        (lastPut[k].state = "done" /\ now - StoredAt(k) <= ttl)
            => get(files, now, k) = Hit(lastPut[k].frame)

\* a get of a non-empty series, some time after its put and within the ttl
C1_Witness ==
    /\ result.op = "get"
    /\ lastPut[result.key].state = "done"
    /\ Len(lastPut[result.key].frame) >= 1
    /\ now > lastPut[result.key].at
    /\ now - StoredAt(result.key) <= ttl
    /\ result.out = Hit(lastPut[result.key].frame)

\* C2: for an entry whose two files exist, get(k) returns the series iff
\* now - fetched_at <= ttl and absent iff now - fetched_at > ttl; a store with
\* ttl = 0 returns absent once any time has passed since the put, and a store
\* with a large ttl returns a hit right after the put.
C2_TTL ==
    \A k \in Keys :
        /\ BothFiles(k) =>
              /\ get(files, now, k).ret = "frame" <=> now - StoredAt(k) <= ttl
              /\ get(files, now, k) = Absent <=> now - StoredAt(k) > ttl
        /\ (lastPut[k].state = "done" /\ ttl = 0 /\ now > lastPut[k].at)
              => get(files, now, k) = Absent
        /\ (lastPut[k].state = "done" /\ ttl = DEFAULT_CACHE_TTL /\ now = lastPut[k].at)
              => get(files, now, k).ret = "frame"

\* C10: after clear_all(), get(k) returns absent for every key until k is put
\* again, and list_entries() returns no entry until some key is put again.
C10_ClearAll ==
    /\ \A k \in Keys : lastPut[k].state = "cleared" => get(files, now, k) = Absent
    /\ (\A k \in Keys : lastPut[k].state = "cleared") => list_entries(files) = NoEntries

\* clear_all() has just removed the entries of two keys
C10_Witness ==
    /\ result.op = "clear_all"
    /\ \A k \in Keys : {data_path(k), meta_path(k)} \subseteq result.had
    /\ \A k \in Keys : lastPut[k].state = "cleared"
    /\ files = [n \in {} |-> Partial]

\* the metadata record in k's sidecar
StoredMeta(k) == json_load(files[meta_path(k)])

\* C11: a put(k, S2, **tags2) on a key that holds the entry of an earlier
\* put(k, S1, **tags1) leaves the data file with the rows of S2 and the
\* metadata with exactly the names fetched_at, key and those of tags2, each
\* tag of tags2 with its value: no tag of tags1 alone and no row of S1 stays.
C11_PutReplaces ==
    (result.op = "put" /\ result.over.state = "done") =>
        /\ read_parquet(files[data_path(result.key)]) = lastPut[result.key].frame
        /\ DOMAIN StoredMeta(result.key)
              = {"fetched_at", "key"} \cup DOMAIN lastPut[result.key].tags
        /\ \A n \in DOMAIN lastPut[result.key].tags :
              StoredMeta(result.key)[n] = lastPut[result.key].tags[n]

\* a put without tags of the empty series has just replaced an entry that had
\* a row and a tag
C11_Witness ==
    /\ result.op = "put"
    /\ result.over.state = "done"
    /\ result.over.rows >= 1
    /\ "source" \in result.over.names
    /\ lastPut[result.key] = DonePut(<<>>, NoTags, now)
    /\ read_parquet(files[data_path(result.key)]) = <<>>
    /\ DOMAIN StoredMeta(result.key) = {"fetched_at", "key"}

\* C12: after put(k, S, **tags) the metadata record of k has fetched_at equal
\* to the clock time at which the put ran and key equal to k, whatever tags
\* the caller passed.
C12_Stamped ==
    \A k \in Keys :
        lastPut[k].state = "done" =>
            /\ StoredMeta(k)["fetched_at"] = lastPut[k].at
            /\ StoredMeta(k)["key"] = k

(***************************************************************************)
(* Properties of listing the store (SpecList).                             *)
(***************************************************************************)
\* the keys that were put and not invalidated or cleared since
Live == { k \in AllKeys : lastPut[k].state = "done" }

\* C13: list_entries() returns exactly one (key, metadata) pair for every key
\* that was put and not since invalidated or cleared, stale or not, and
\* nothing else; the key of the pair is the key passed to put, the metadata
\* the record the latest put of the key wrote, so metadata.key is that key.
C13_ListEntries ==
    result.op = "list_entries" =>
        /\ result.out.ret = "entries"
        /\ Len(result.out.entries) = Cardinality(Live)
        /\ \A k \in Live : \E i \in 1..Len(result.out.entries) :
              result.out.entries[i]
                  = <<k, build_meta(k, lastPut[k].at, lastPut[k].tags)>>
        /\ \A i \in 1..Len(result.out.entries) :
              result.out.entries[i][2]["key"] = result.out.entries[i][1]

\* C14: list_entries() returns its entries in ascending lexicographic order
\* of key, whatever keys are stored.
C14_ListOrder ==
    (result.op = "list_entries" /\ result.out.ret = "entries") =>
        \A i, j \in 1..Len(result.out.entries) :
            i < j => ~NameLess(result.out.entries[j][1], result.out.entries[i][1])

(***************************************************************************)
(* Properties of make_key (SpecKey).                                       *)
(***************************************************************************)
\* the set of (name, value) pairs of keyword arguments
Pairs(kw) == { kw[i] : i \in 1..Len(kw) }

\* C17: make_key(provider, series_id, **extra) depends only on the provider,
\* the series id and the set of (name, value) pairs of extra: the same pairs
\* written in any keyword order give the same key.
C17_OrderInvariant ==
    result.op = "make_key" =>
        \A other \in Kwargs :
            Pairs(other) = Pairs(result.params)
                => make_key(result.source, result.series_id, other) = result.out

\* make_key was called with start before end, the reverse of the sorted order,
\* and gave the key of the call with end before start
C17_Witness ==
    /\ result.op = "make_key"
    /\ Len(result.params) = 2
    /\ result.params[1][1] = StartName
    /\ result.params[2][1] = EndName
    /\ result.params[1][2] # result.params[2][2]
    /\ result.out = make_key(result.source, result.series_id,
                             <<result.params[2], result.params[1]>>)

\* C18: make_key gives different keys to calls that differ in a parameter
\* name, in a parameter value of any type, in the provider or in the series
\* id: distinct inputs never share a canonical encoding.
C18_Injective ==
    result.op = "make_key" =>
        \A source \in Providers, series_id \in SeriesIds, other \in Kwargs :
            (\/ source # result.source
             \/ series_id # result.series_id
             \/ Pairs(other) # Pairs(result.params))
                => make_key(source, series_id, other) # result.out

(***************************************************************************)
(* Properties of a put that dies part-way (SpecCrash).                     *)
(***************************************************************************)
\* C3: when a put(k, S) died after it started writing the data file and before
\* the metadata file was written completely, the next get(k) returns absent,
\* whether or not k held an entry before.
C3_TornPutIsMiss ==
    \A k \in Keys :
        (lastPut[k].state = "torn" /\ pc[Caller].at = "crashed")
            => get(files, now, k) = Absent

\* C9: invalidate(k) never raises, whichever of k's files exist; from then
\* until the next put(k) neither file of k exists and get(k) returns absent.
C9_Invalidate ==
    /\ result.op = "invalidate" => result.out = Done
    /\ \A k \in Keys :
          lastPut[k].state = "invalidated"
              => /\ ~exists(files, data_path(k))
                 /\ ~exists(files, meta_path(k))
                 /\ get(files, now, k) = Absent

\* invalidate(k) has just run on a key that had its data file and no sidecar
C9_Witness ==
    /\ result.op = "invalidate"
    /\ result.had = {data_path(result.key)}
    /\ lastPut[result.key].state = "invalidated"
    /\ ~exists(files, data_path(result.key))

\* k's sidecar exists and cannot be parsed; k's data file exists and cannot be read
CorruptMeta(k) == exists(files, meta_path(k)) /\ files[meta_path(k)].kind # "json"
CorruptData(k) == exists(files, data_path(k)) /\ files[data_path(k)].kind # "parquet"

\* k's sidecar can be parsed and says the entry is older than ttl
Stale(k) ==
    /\ exists(files, meta_path(k))
    /\ ~CorruptMeta(k)
    /\ now - StoredAt(k) > ttl

\* C15: get(k) returns absent, without raising, when no file of k exists, when
\* only one of k's two files exists, when k's metadata cannot be read and when
\* k's entry is stale.
C15_AbsentCases ==
    \A k \in Keys :
        (\/ ~exists(files, data_path(k))
         \/ ~exists(files, meta_path(k))
         \/ CorruptMeta(k)
         \/ Stale(k))
            => get(files, now, k) = Absent

\* C16 as stated: when both files of k exist and the metadata cannot be parsed
\* or the data file cannot be read, get(k) fails with an error and leaves both
\* files in place.
C16_CorruptRaises ==
    [][\A k \in Keys :
          (Get(k) /\ BothFiles(k) /\ (CorruptMeta(k) \/ CorruptData(k)))
              => /\ result'.out.ret = "raise"
                 /\ files' = files]_vars

\* C16 as the code has it: when both files of k exist and the metadata cannot
\* be parsed, or the metadata says the entry is within its ttl and the data
\* file cannot be read, get(k) fails with an error and leaves both files in
\* place.
C16_CorruptRaisesUnlessStale ==
    [][\A k \in Keys :
          (Get(k) /\ BothFiles(k) /\ (CorruptMeta(k) \/ (CorruptData(k) /\ ~Stale(k))))
              => /\ result'.out.ret = "raise"
                 /\ files' = files]_vars

\* get(k) has just failed on a data file that cannot be read, beside a sidecar
\* that says the entry is fresh
C16_Witness ==
    /\ result.op = "get"
    /\ BothFiles(result.key)
    /\ CorruptData(result.key)
    /\ ~CorruptMeta(result.key)
    /\ now - StoredAt(result.key) <= ttl
    /\ result.out = Raises("ArrowInvalid")

(***************************************************************************)
(* Properties of two unsynchronised puts (SpecConc).                       *)
(***************************************************************************)
BothDoneOn(k) == \A p \in Procs : pc[p].at = "done" /\ pc[p].key = k

\* C4: when two processes have each run put on the same key, each file holds
\* what the process that wrote that file last put there, whoever wrote the
\* other file last (writes of one file that overlapped in time aside); so the
\* store can end with the data of one put beside the metadata of the other.
C4_LastWriterPerFile ==
    \A k \in Keys :
        BothDoneOn(k) =>
            /\ ~wlog[data_path(k)].raced =>
                  /\ files[data_path(k)].kind = "parquet"
                  /\ read_parquet(files[data_path(k)]) = pc[wlog[data_path(k)].proc].frame
            /\ ~wlog[meta_path(k)].raced =>
                  /\ files[meta_path(k)].kind = "json"
                  /\ json_load(files[meta_path(k)])
                        = build_meta(k, pc[wlog[meta_path(k)].proc].stamp,
                                     pc[wlog[meta_path(k)].proc].tags)

\* both puts are done, no write overlapped another, and the store holds the
\* series of one put with the metadata of the other
C4_Witness ==
    \E k \in Keys :
        /\ BothDoneOn(k)
        /\ ~wlog[data_path(k)].raced /\ ~wlog[meta_path(k)].raced
        /\ pc[1].frame # pc[2].frame
        /\ build_meta(k, pc[1].stamp, pc[1].tags) # build_meta(k, pc[2].stamp, pc[2].tags)
        /\ get(files, pc[2].stamp, k) = Hit(pc[1].frame)
        /\ json_load(files[meta_path(k)]) = build_meta(k, pc[2].stamp, pc[2].tags)

(***************************************************************************)
(* Properties of SeriesNode trees (SpecTree).                              *)
(***************************************************************************)
\* the node reached from n by hops steps up the parent pointers (None if the
\* chain ends earlier)
RECURSIVE Up(_, _, _)
Up(par, n, hops) ==
    IF hops = 0 \/ n = None THEN n ELSE Up(par, par[n], hops - 1)
Ancestors(par, n) == { Up(par, n, h) : h \in 1..MaxNodes } \ {None}

\* the places (holder, position) where node n stands in a children list
Places(ch, n) == { e \in Edges(ch) : ch[e[1]][e[2]] = n }

\* C5: add_child(node) on a receiver that is node itself or has node among its
\* ancestors fails with an explicit error and changes no children list, parent
\* pointer or level.
C5_CycleRejected ==
    [][\A self \in Nodes, child \in Nodes :
          (AddChild(self, child) /\ (child = self \/ child \in Ancestors(parent, self)))
              => /\ treeOp'.out.ret = "raise"
                 /\ UNCHANGED <<children, parent, level>>]_vars

\* C6: no node is a descendant of itself, and no node stands in the children
\* lists of two nodes or twice in one children list.
C6_TreeShape ==
    \A n \in made :
        /\ n \notin Descendants(children, n)
        /\ Cardinality(Places(children, n)) <= 1

\* C7: for every parentless root r and every node n of r's subtree, n.level is
\* the number of parent hops from n to r and that many hops from n reach r;
\* r.level is 0; every child c of a node p of the subtree has c.parent = p and
\* c.level = p.level + 1.
C7_LevelsAndParents ==
    \A r \in made :
        parent[r] = None =>
            /\ level[r] = 0
            /\ \A n \in {r} \cup Descendants(children, r) :
                  /\ level[n] \in 0..MaxNodes
                  /\ Up(parent, n, level[n]) = r
                  /\ \A h \in 0..(level[n] - 1) : Up(parent, n, h) # r
                  /\ \A c \in KidsOf(children, n) :
                        parent[c] = n /\ level[c] = level[n] + 1

\* C8: p.add_child(c) appends c to p.children behind the earlier children,
\* sets c.parent to p and c.level to p.level + 1, and leaves every descendant
\* d of c with a parent that holds d in its children list and with a level
\* one greater than that parent's.
C8_AddChild ==
    [][\A self \in Nodes, child \in Nodes :
          AddChild(self, child)
              => /\ children'[self] = Append(children[self], child)
                 /\ \A n \in Nodes \ {self} : children'[n] = children[n]
                 /\ parent'[child] = self
                 /\ level'[child] = level[self] + 1
                 /\ \A d \in Descendants(children', child) :
                       /\ parent'[d] \in Nodes
                       /\ d \in KidsOf(children', parent'[d])
                       /\ level'[d] = level'[parent'[d]] + 1]_vars

\* the walks of the nodes of kids, one after the other
RECURSIVE WalksOf(_)
WalksOf(kids) ==
    IF kids = <<>> THEN <<>>
    ELSE walk(children, Head(kids), 0).nodes \o WalksOf(Tail(kids))

\* C19: walk() on a node yields the node first and then, child by child in
\* stored order, the whole walk() of the child; every node of the subtree is
\* yielded exactly once.
C19_Walk ==
    treeOp.op = "walk" =>
        /\ treeOp.out.ret = "nodes"
        /\ treeOp.out.nodes = <<treeOp.self>> \o WalksOf(children[treeOp.self])
        /\ { treeOp.out.nodes[i] : i \in 1..Len(treeOp.out.nodes) }
              = {treeOp.self} \cup Descendants(children, treeOp.self)
        /\ \A i, j \in 1..Len(treeOp.out.nodes) :
              i # j => treeOp.out.nodes[i] # treeOp.out.nodes[j]

\* C20: leaves() returns the nodes of walk() that have no children, in the
\* order walk() yields them (it completes whenever walk() does); on a node
\* without children it returns that node alone.
C20_Leaves ==
    treeOp.op = "leaves" =>
        /\ ~walk(children, treeOp.self, 0).err =>
              treeOp.out = NodeList(SelectSeq(walk(children, treeOp.self, 0).nodes,
                                              LAMBDA n : children[n] = <<>>))
        /\ children[treeOp.self] = <<>> => treeOp.out = NodeList(<<treeOp.self>>)

\* leaves() has just returned the two children, in stored order, of a node
\* whose walk() yields the node itself before them
C20_Witness ==
    /\ treeOp.op = "leaves"
    /\ treeOp.out.ret = "nodes"
    /\ Len(treeOp.out.nodes) = 2
    /\ treeOp.out.nodes[1] # treeOp.out.nodes[2]
    /\ treeOp.out.nodes = children[treeOp.self]
    /\ walk(children, treeOp.self, 0).nodes = <<treeOp.self>> \o treeOp.out.nodes

\* the first element of a sequence of nodes whose code is c
FirstWithCode(nodes, c) ==
    nodes[CHOOSE i \in 1..Len(nodes) :
              /\ code(nodes[i]) = c
              /\ \A j \in 1..(i - 1) : code(nodes[j]) # c]

\* C21: find(code) returns the first node in walk() order whose code is the
\* argument (the receiver when its own code matches) and returns no node
\* exactly when no node of the subtree has that code; where the codes of the
\* subtree are unique that is the one node with the code.
C21_Find ==
    treeOp.op = "find" =>
        LET subtree == {treeOp.self} \cup Descendants(children, treeOp.self)
            nodes == walk(children, treeOp.self, 0).nodes
        IN  IF \A n \in subtree : code(n) # treeOp.code
            THEN treeOp.out = Absent
            ELSE /\ treeOp.out.ret = "node"
                 /\ code(treeOp.out.node) = treeOp.code
                 /\ treeOp.out.node \in subtree
                 /\ treeOp.out.node = FirstWithCode(nodes, treeOp.code)

\* C22: for a parentless root r and a node n that r.walk() yields, n.path()
\* is the list of the codes of the nodes on the chain from r down to n: it
\* starts with r.code, ends with n.code and has n.level + 1 elements; r.path()
\* is [r.code].
C22_Path ==
    treeOp.op = "path" =>
        \A r \in made :
            (parent[r] = None /\ treeOp.self \in {r} \cup Descendants(children, r)) =>
                /\ treeOp.out.ret = "codes"
                /\ Len(treeOp.out.codes) = level[treeOp.self] + 1
                /\ Up(parent, treeOp.self, level[treeOp.self]) = r
                /\ \A i \in 1..Len(treeOp.out.codes) :
                      treeOp.out.codes[i]
                          = code(Up(parent, treeOp.self, Len(treeOp.out.codes) - i))
                /\ treeOp.self = r => treeOp.out.codes = <<code(r)>>

\* dict d mirrors the subtree of node n over steps levels: n's code, and the
\* member children exactly if n has children, one mirror per child in order
RECURSIVE Mirrors(_, _, _)
Mirrors(d, n, steps) ==
    /\ d.code = code(n)
    /\ ("children" \in DOMAIN d) <=> (children[n] # <<>>)
    /\ "children" \in DOMAIN d =>
          /\ steps > 0
          /\ Len(d.children) = Len(children[n])
          /\ \A i \in 1..Len(d.children) : Mirrors(d.children[i], children[n][i], steps - 1)

\* the number of entries of a nested dict
RECURSIVE Entries(_)
RECURSIVE EntriesOf(_)
Entries(d) == 1 + (IF "children" \in DOMAIN d THEN EntriesOf(d.children) ELSE 0)
EntriesOf(ds) == IF ds = <<>> THEN 0 ELSE Entries(Head(ds)) + EntriesOf(Tail(ds))

\* C24: to_dict() returns a nested structure with one entry per node of the
\* subtree, the children in stored order, in which the children member is
\* present exactly for the nodes with at least one child and absent for a leaf.
C24_ToDict ==
    treeOp.op = "to_dict" =>
        /\ treeOp.out.ret = "dict"
        /\ Mirrors(treeOp.out.dict, treeOp.self, MaxNodes)
        /\ Entries(treeOp.out.dict)
              = Cardinality({treeOp.self} \cup Descendants(children, treeOp.self))

\* C25: __post_init__ run again on a node whose subtree has consistent parent
\* pointers and levels changes no parent pointer, no level and no children
\* list.
C25_RelinkIdempotent ==
    [][\A self \in Nodes :
          (PostInit(self) /\ Consistent(self))
              => /\ UNCHANGED <<children, parent, level>>
                 /\ treeOp'.out = Done]_vars

\* __post_init__ has just run again on a node with a child and a grandchild
\* whose parent pointers and levels were consistent
C25_Witness ==
    /\ treeOp.op = "post_init"
    /\ treeOp.consistent
    /\ treeOp.out = Done
    /\ \E c \in KidsOf(children, treeOp.self) : children[c] # <<>>
    /\ Consistent(treeOp.self)

\* C27: walk(), leaves(), find(), path() and the relinking pass of add_child
\* end after finitely many steps on every structure that construction and
\* add_child calls can build: none of them runs for ever or until the
\* interpreter gives up the recursion.
C27_Terminates ==
    treeOp.op \in {"walk", "leaves", "find", "path", "add_child"}
        => treeOp.out.ret \notin {"raise", "never"}

(***************************************************************************)
(* Properties of get_source (SpecSource).                                  *)
(***************************************************************************)
\* C23: get_source(provider) returns the first element of sources, in list
\* order, whose provider is the argument, and returns none, without raising,
\* when no source of the node matches.
C23_GetSource ==
    treeOp.op = "get_source" =>
        LET hits == { i \in 1..Len(treeOp.sources) : treeOp.sources[i].source = treeOp.name }
        IN  IF hits = {} THEN treeOp.out = Absent
            ELSE /\ treeOp.out.ret = "source"
                 /\ \E i \in hits :
                       /\ \A j \in hits : i <= j
                       /\ treeOp.out.src = treeOp.sources[i]

\* get_source has just returned the first of two different sources of the
\* provider asked for
C23_Witness ==
    /\ treeOp.op = "get_source"
    /\ Len(treeOp.sources) = 2
    /\ treeOp.sources[1].source = treeOp.name
    /\ treeOp.sources[2].source = treeOp.name
    /\ treeOp.sources[1] # treeOp.sources[2]
    /\ treeOp.out = [ret |-> "source", src |-> treeOp.sources[1]]

(***************************************************************************)
(* What the calls of one caller leave alone (Spec).                        *)
(***************************************************************************)
\* the metadata records list_entries returns for directory dir
ListedMeta(dir) ==
    { list_entries(dir).entries[i][2] : i \in 1..Len(list_entries(dir).entries) }

\* C28: get(k) creates, changes and deletes no file; a stale entry is on disk
\* after get returned absent for it, and list_entries() still returns it.
C28_GetReadsOnly ==
    [][\A k \in Keys :
          Get(k) =>
              /\ files' = files
              /\ (BothFiles(k) /\ Stale(k)) =>
                    /\ result'.out = Absent
                    /\ exists(files', data_path(k)) /\ exists(files', meta_path(k))
                    /\ list_entries(files') = list_entries(files)
                    /\ json_load(files'[meta_path(k)]) \in ListedMeta(files')]_vars

\* get(k) has just returned absent for an entry that is stale and on disk
C28_Witness ==
    /\ result.op = "get"
    /\ result.out = Absent
    /\ BothFiles(result.key)
    /\ Stale(result.key)
    /\ StoredMeta(result.key) \in ListedMeta(files)

\* the content of file name in directory dir, if the file exists
FileOf(dir, name) == IF exists(dir, name) THEN [content |-> dir[name]] ELSE [missing |-> TRUE]

\* C29: put(k, ...) and invalidate(k) change only the two files of k: for
\* every other key j the data file, the metadata file and the result of
\* get(j) are the same right before and right after the call.
\* The put of key k that a step takes is the one its record of the last put
\* names.
C29_OtherKeysUntouched ==
    [][\A k \in Keys :
          \/ /\ result'.op = "put"
             /\ lastPut'[k].state = "done"
             /\ Put(k, lastPut'[k].frame, lastPut'[k].tags)
          \/ /\ result'.op = "invalidate"
             /\ Invalidate(k)
          =>
              \A j \in AllKeys \ {k} :
                  /\ FileOf(files', data_path(j)) = FileOf(files, data_path(j))
                  /\ FileOf(files', meta_path(j)) = FileOf(files, meta_path(j))
                  /\ get(files', now', j) = get(files, now, j)]_vars

\* invalidate(k) has just removed the two files of k beside the entry of
\* another key, which get still returns
C29_Witness ==
    /\ result.op = "invalidate"
    /\ result.had = {data_path(result.key), meta_path(result.key)}
    /\ ~exists(files, data_path(result.key))
    /\ \E j \in Keys \ {result.key} :
          /\ BothFiles(j)
          /\ StartsWith(data_path(j), result.key)
          /\ get(files, now, j).ret = "frame"

\* the cache holds a fresh entry under key: get returns its series
Fresh(dir, t, key) == get(dir, t, key).ret = "frame"

\* C26: fetch_series consults the cache before the provider.  When the cache
\* holds a fresh entry under the key of the request, the cached series is
\* returned and the provider is not asked; otherwise the provider is asked
\* once and the series it answers with is put under that key and returned;
\* and a request that repeats the last one, which returned a series, within
\* the TTL does not ask the provider.
C26_CacheFirst ==
    [][\A client \in Clients, req \in Requests, reply \in Replies :
          FetchSeries(client, req, reply) =>
              /\ Fresh(files, now, cache_key(client, req, now)) =>
                    /\ result'.calls = 0
                    /\ result'.out = get(files, now, cache_key(client, req, now))
              /\ ~Fresh(files, now, cache_key(client, req, now)) =>
                    /\ result'.calls = 1
                    /\ reply.ret = "frame" =>
                          /\ result'.out = reply
                          /\ get(files', now', cache_key(client, req, now)) = reply
              /\ ( /\ result.op = "fetch" /\ result.client = client /\ result.req = req
                   /\ result.calls = 1 /\ result.out.ret = "frame"
                   /\ now - result.at <= ttl ) =>
                    result'.calls = 0]_vars

\* C30: a get(k) that runs while another process runs invalidate(k) or
\* clear_all() returns the series that was stored when it began, or absent,
\* and never raises, whatever the order of its existence check, its read of
\* the metadata and its read of the data among the deletions.
C30_RacingGetNeverRaises ==
    result.op = "get" =>
        /\ result.out.ret # "raise"
        /\ result.out \in {result.stored, Absent}

====
